---- MODULE Spec2Model ----
(***************************************************************************)
(* markdown_to_html of scripts/save_summary.py as a state machine.         *)
(*                                                                         *)
(* The function is a pipeline over one string: six whole-document regular  *)
(* expression substitutions (three header rules, bold, inline code,        *)
(* blockquote), a line loop that assembles list containers, and a second   *)
(* line loop that wraps bare lines in paragraph elements.  Every statement *)
(* of the function is one action; the two loops take one step per line.    *)
(*                                                                         *)
(* Strings are TLA+ strings (sequences of characters): Len, \o and SubSeq  *)
(* are the only primitives used.  The backtick cannot be written inside a  *)
(* TLA+ string literal, so the character U+0060 is written BT below and    *)
(* is represented by a character that occurs nowhere else in the model.    *)
(***************************************************************************)
EXTENDS Integers, Sequences, FiniteSets, TLC

VARIABLES md, html, lines, result, in_list, i, pc, ret

vars == <<md, html, lines, result, in_list, i, pc, ret>>

-----------------------------------------------------------------------------
(* Characters and string primitives                                        *)

NL == "\n"
BT == "~"

\* The whitespace str.strip() removes from both ends (the vertical tab, which
\* has no escape in a TLA+ string, is left out).
Whitespace == {" ", "\t", NL, "\r", "\f"}

\* \d of the re module (ASCII digits).
Digits == {"0", "1", "2", "3", "4", "5", "6", "7", "8", "9"}

At(s, k) == SubSeq(s, k, k)

Take(s, n) == SubSeq(s, 1, n)

Drop(s, n) == SubSeq(s, n + 1, Len(s))

\* s.startswith(p)
StartsWith(s, p) == Len(s) >= Len(p) /\ Take(s, Len(p)) = p

\* s.endswith(p)
EndsWith(s, p) == Len(s) >= Len(p) /\ Drop(s, Len(s) - Len(p)) = p

\* p in s
Contains(s, p) == \E k \in 1..(Len(s) - Len(p) + 1) : SubSeq(s, k, k + Len(p) - 1) = p

Min(S) == CHOOSE x \in S : \A y \in S : x <= y

\* The positions of character c in s.
Positions(s, c) == {k \in 1..Len(s) : At(s, k) = c}

\* s.split('\n'): always at least one line.
RECURSIVE Split(_)
Split(s) ==
    IF Positions(s, NL) = {} THEN <<s>>
    ELSE LET k == Min(Positions(s, NL))
         IN  <<Take(s, k - 1)>> \o Split(Drop(s, k))

\* '\n'.join(ls)
RECURSIVE Join(_)
Join(ls) ==
    IF Len(ls) = 0 THEN ""
    ELSE IF Len(ls) = 1 THEN ls[1]
    ELSE ls[1] \o NL \o Join(Tail(ls))

\* s.strip()
RECURSIVE LStrip(_)
LStrip(s) == IF Len(s) > 0 /\ At(s, 1) \in Whitespace THEN LStrip(Drop(s, 1)) ELSE s

RECURSIVE RStrip(_)
RStrip(s) ==
    IF Len(s) > 0 /\ At(s, Len(s)) \in Whitespace THEN RStrip(Take(s, Len(s) - 1)) ELSE s

Strip(s) == RStrip(LStrip(s))

-----------------------------------------------------------------------------
(* The regular expressions                                                 *)

\* One line under re.sub(r'^MARKER(.+)$', r'OPEN\1CLOSE', flags=MULTILINE):
\* the line must start with the marker and hold at least one more character.
SubLine(marker, open, close, line) ==
    IF StartsWith(line, marker) /\ Len(line) > Len(marker)
    THEN open \o Drop(line, Len(marker)) \o close
    ELSE line

\* The MULTILINE substitution over the document: ^ and $ anchor at every line
\* and . does not match the newline, so each line is substituted on its own.
SubLines(marker, open, close, s) ==
    LET ls == Split(s)
    IN  Join([k \in 1..Len(ls) |-> SubLine(marker, open, close, ls[k])])

\* re.sub(r'^### (.+)$', r'<h3>\1</h3>', html, flags=re.MULTILINE)
Header3(s) == SubLines("### ", "<h3>", "</h3>", s)

\* Fault: the level-2 rule without the space after its marker.
Header2NoSpace(s) == SubLines("##", "<h2>", "</h2>", s)

\* re.sub(r'^## (.+)$', r'<h2>\1</h2>', html, flags=re.MULTILINE)
Header2(s) == SubLines("## ", "<h2>", "</h2>", s)

\* re.sub(r'^# (.+)$', r'<h1>\1</h1>', html, flags=re.MULTILINE)
Header1(s) == SubLines("# ", "<h1>", "</h1>", s)

\* re.sub(r'^> (.+)$', r'<blockquote>\1</blockquote>', html, flags=re.MULTILINE)
Blockquote(s) == SubLines("> ", "<blockquote>", "</blockquote>", s)

\* Where \*\*(.+?)\*\* can close when it opens at p: the closing pair starts
\* at q, at least one character lies between, and, . not matching the
\* newline, no newline lies between.
BoldCloses(s, p) ==
    {q \in (p + 3)..(Len(s) - 1) :
        /\ SubSeq(s, q, q + 1) = "**"
        /\ \A k \in (p + 2)..(q - 1) : At(s, k) # NL}

\* Where \*\*(.+?)\*\* matches in s.
BoldOpens(s) ==
    {p \in 1..(Len(s) - 4) : SubSeq(s, p, p + 1) = "**" /\ BoldCloses(s, p) # {}}

\* re.sub(r'\*\*(.+?)\*\*', r'<strong>\1</strong>', html): the leftmost
\* match with the shortest content, then on from the end of the match.
RECURSIVE Bold(_)
Bold(s) ==
    IF BoldOpens(s) = {} THEN s
    ELSE LET p == Min(BoldOpens(s))
             q == Min(BoldCloses(s, p))
         IN  Take(s, p - 1) \o "<strong>" \o SubSeq(s, p + 2, q - 1) \o "</strong>"
                \o Bold(Drop(s, q + 1))

\* The backticks of s after position p.
CodeCloses(s, p) == {q \in (p + 1)..Len(s) : At(s, q) = BT}

\* Where `([^`]+)` matches in s: a backtick, a character that is none, and a
\* backtick somewhere after; [^`] matches the newline.
CodeOpens(s) ==
    {p \in 1..(Len(s) - 2) : At(s, p) = BT /\ At(s, p + 1) # BT /\ CodeCloses(s, p) # {}}

\* re.sub(r'`([^`]+)`', r'<code>\1</code>', html)
RECURSIVE InlineCode(_)
InlineCode(s) ==
    IF CodeOpens(s) = {} THEN s
    ELSE LET p == Min(CodeOpens(s))
             q == Min(CodeCloses(s, p))
         IN  Take(s, p - 1) \o "<code>" \o SubSeq(s, p + 1, q - 1) \o "</code>"
                \o InlineCode(Drop(s, q))

\* re.match(r'^[-*] ', line)
IsUnordered(line) == Len(line) >= 2 /\ At(line, 1) \in {"-", "*"} /\ At(line, 2) = " "

\* re.sub(r'^[-*] ', '', line) on a line that matches
UnorderedItem(line) == Drop(line, 2)

\* The number of digits line starts with.
RECURSIVE DigitPrefix(_)
DigitPrefix(line) ==
    IF Len(line) > 0 /\ At(line, 1) \in Digits THEN 1 + DigitPrefix(Drop(line, 1)) ELSE 0

\* re.match(r'^\d+\. ', line)
IsOrdered(line) ==
    LET d == DigitPrefix(line)
    IN  d >= 1 /\ Len(line) >= d + 2 /\ SubSeq(line, d + 1, d + 2) = ". "

\* re.sub(r'^\d+\. ', '', line) on a line that matches
OrderedItem(line) == Drop(line, DigitPrefix(line) + 2)

\* f'<li>{item}</li>'
ListItem(item) == "<li>" \o item \o "</li>"

-----------------------------------------------------------------------------
(* The list assembler's closing rule                                        *)

\* The width of the trailing window result[-10:].
Window == 10

\* result[-10:]
LastLines(res) == SubSeq(res, IF Len(res) > Window THEN Len(res) - Window + 1 ELSE 1, Len(res))

\* '</ol>' if any('<ol>' in r for r in result[-10:]) else '</ul>'
CloseTag(res) ==
    IF \E k \in 1..Len(LastLines(res)) : Contains(LastLines(res)[k], "<ol>")
    THEN "</ol>" ELSE "</ul>"

\* Fault: the guard without its test for a list item.
CloseGuardOpenOnly(res) == StartsWith(res[Len(res)], "<ol>")

\* result[-1].startswith('<ol>') or '<li>' in result[-1]
CloseGuard(res) == StartsWith(res[Len(res)], "<ol>") \/ Contains(res[Len(res)], "<li>")

\* The tag appended after the loop when a list is still open.
EndTag == "</ul>"

\* Fault: the paragraph wrapper around the line as it stands.
ParagraphUnstripped(line) ==
    LET stripped == Strip(line)
    IN  IF Len(stripped) > 0 /\ ~StartsWith(stripped, "<") /\ ~EndsWith(stripped, ">")
        THEN "<p>" \o line \o "</p>"
        ELSE line

\* The paragraph wrapper on one line.
Paragraph(line) ==
    LET stripped == Strip(line)
    IN  IF Len(stripped) > 0 /\ ~StartsWith(stripped, "<") /\ ~EndsWith(stripped, ">")
        THEN "<p>" \o stripped \o "</p>"
        ELSE line

-----------------------------------------------------------------------------
(* The actions, one per statement of markdown_to_html                       *)

SubH3 ==
    /\ pc = "h3"
    /\ html' = Header3(html)
    /\ pc' = "h2"
    /\ UNCHANGED <<md, lines, result, in_list, i, ret>>

SubH2 ==
    /\ pc = "h2"
    /\ html' = Header2(html)
    /\ pc' = "h1"
    /\ UNCHANGED <<md, lines, result, in_list, i, ret>>

SubH1 ==
    /\ pc = "h1"
    /\ html' = Header1(html)
    /\ pc' = "bold"
    /\ UNCHANGED <<md, lines, result, in_list, i, ret>>

SubBold ==
    /\ pc = "bold"
    /\ html' = Bold(html)
    /\ pc' = "code"
    /\ UNCHANGED <<md, lines, result, in_list, i, ret>>

SubCode ==
    /\ pc = "code"
    /\ html' = InlineCode(html)
    /\ pc' = "quote"
    /\ UNCHANGED <<md, lines, result, in_list, i, ret>>

SubQuote ==
    /\ pc = "quote"
    /\ html' = Blockquote(html)
    /\ pc' = "split"
    /\ UNCHANGED <<md, lines, result, in_list, i, ret>>

\* Fault: the loop entered with in_list set.
SplitLinesListOpen ==
    /\ pc = "split"
    /\ lines' = Split(html)
    /\ result' = <<>>
    /\ in_list' = TRUE
    /\ i' = 1
    /\ pc' = "list"
    /\ UNCHANGED <<md, html, ret>>

\* lines = html.split('\n'); result = []; in_list = False
SplitLines ==
    /\ pc = "split"
    /\ lines' = Split(html)
    /\ result' = <<>>
    /\ in_list' = FALSE
    /\ i' = 1
    /\ pc' = "list"
    /\ UNCHANGED <<md, html, ret>>

\* The loop body on an unordered item line.
ListUnordered ==
    /\ pc = "list"
    /\ i <= Len(lines)
    /\ IsUnordered(lines[i])
    /\ result' = (IF in_list THEN result ELSE Append(result, "<ul>"))
                    \o <<ListItem(UnorderedItem(lines[i]))>>
    /\ in_list' = TRUE
    /\ i' = i + 1
    /\ UNCHANGED <<md, html, lines, pc, ret>>

\* Fault: the ordered branch without in_list = True.
ListOrderedForgetsOpen ==
    /\ pc = "list"
    /\ i <= Len(lines)
    /\ ~IsUnordered(lines[i])
    /\ IsOrdered(lines[i])
    /\ result' = (IF in_list THEN result ELSE Append(result, "<ol>"))
                    \o <<ListItem(OrderedItem(lines[i]))>>
    /\ in_list' = in_list
    /\ i' = i + 1
    /\ UNCHANGED <<md, html, lines, pc, ret>>

\* The loop body on an ordered item line.
ListOrdered ==
    /\ pc = "list"
    /\ i <= Len(lines)
    /\ ~IsUnordered(lines[i])
    /\ IsOrdered(lines[i])
    /\ result' = (IF in_list THEN result ELSE Append(result, "<ol>"))
                    \o <<ListItem(OrderedItem(lines[i]))>>
    /\ in_list' = TRUE
    /\ i' = i + 1
    /\ UNCHANGED <<md, html, lines, pc, ret>>

\* Fault: the else branch without result.append(line) after a close marker.
ListOtherDropsLine ==
    /\ pc = "list"
    /\ i <= Len(lines)
    /\ ~IsUnordered(lines[i])
    /\ ~IsOrdered(lines[i])
    /\ IF in_list /\ Len(result) = 0
       THEN /\ pc' = "error"
            /\ UNCHANGED <<result, in_list, i>>
       ELSE /\ result' = (IF in_list /\ CloseGuard(result)
                          THEN Append(result, CloseTag(result))
                          ELSE Append(result, lines[i]))
            /\ in_list' = FALSE
            /\ i' = i + 1
            /\ pc' = pc
    /\ UNCHANGED <<md, html, lines, ret>>

\* The loop body on any other line.  result[-1] of an empty list raises
\* IndexError, which nothing catches.
ListOther ==
    /\ pc = "list"
    /\ i <= Len(lines)
    /\ ~IsUnordered(lines[i])
    /\ ~IsOrdered(lines[i])
    /\ IF in_list /\ Len(result) = 0
       THEN /\ pc' = "error"
            /\ UNCHANGED <<result, in_list, i>>
       ELSE /\ result' = (IF in_list /\ CloseGuard(result)
                          THEN Append(result, CloseTag(result))
                          ELSE result) \o <<lines[i]>>
            /\ in_list' = FALSE
            /\ i' = i + 1
            /\ pc' = pc
    /\ UNCHANGED <<md, html, lines, ret>>

\* if in_list: result.append('</ul>')
CloseAtEnd ==
    /\ pc = "list"
    /\ i > Len(lines)
    /\ result' = (IF in_list THEN Append(result, EndTag) ELSE result)
    /\ pc' = "join"
    /\ UNCHANGED <<md, html, lines, in_list, i, ret>>

\* html = '\n'.join(result); lines = html.split('\n'); result = []
JoinSplit ==
    /\ pc = "join"
    /\ html' = Join(result)
    /\ lines' = Split(Join(result))
    /\ result' = <<>>
    /\ i' = 1
    /\ pc' = "para"
    /\ UNCHANGED <<md, in_list, ret>>

\* The body of the paragraph loop.
WrapLine ==
    /\ pc = "para"
    /\ i <= Len(lines)
    /\ result' = Append(result, Paragraph(lines[i]))
    /\ i' = i + 1
    /\ UNCHANGED <<md, html, lines, in_list, pc, ret>>

\* return '\n'.join(result)
Return ==
    /\ pc = "para"
    /\ i > Len(lines)
    /\ ret' = Join(result)
    /\ pc' = "done"
    /\ UNCHANGED <<md, html, lines, result, in_list, i>>

Next ==
    \/ SubH3
    \/ SubH2
    \/ SubH1
    \/ SubBold
    \/ SubCode
    \/ SubQuote
    \/ SplitLines
    \/ ListUnordered
    \/ ListOrdered
    \/ ListOther
    \/ CloseAtEnd
    \/ JoinSplit
    \/ WrapLine
    \/ Return

-----------------------------------------------------------------------------
(* Inputs                                                                   *)

\* The documents of at most n lines drawn from the set S.
LineSeqs(S, n) == UNION {[1..k -> S] : k \in 0..n}

Docs(S, n) == {Join(ls) : ls \in LineSeqs(S, n)}

\* The strings of at most n characters drawn from the set A.
RECURSIVE Strings(_, _)
Strings(A, n) ==
    IF n = 0 THEN {""}
    ELSE LET shorter == Strings(A, n - 1)
         IN  shorter \cup {s \o c : s \in shorter, c \in A}

\* The state on entry, after html = md.
InitWith(D) ==
    /\ md \in D
    /\ html = md
    /\ lines = <<>>
    /\ result = <<>>
    /\ in_list = FALSE
    /\ i = 0
    /\ pc = "h3"
    /\ ret = ""

MaxLines == 3

\* Documents of list items, plain lines, a header and a blockquote; one item
\* and one plain line hold the text of a list marker.
BlockLines == {"- a", "* b", "23. c", "x", "", "# h", "> q", "- <ol>", "<ul>"}

Init == InitWith(Docs(BlockLines, MaxLines))

Spec == Init /\ [][Next]_vars

\* Documents of lines with bold and code markers, balanced and not.
InlineLines ==
    {"**bold** and " \o BT \o "code" \o BT, "a " \o BT \o "c" \o BT \o " d",
     "**a", "b**", BT \o "a", "b" \o BT, "- **b**", "1. " \o BT \o "c" \o BT, "x"}

InitInline == InitWith(Docs(InlineLines, MaxLines))

SpecInline == InitInline /\ [][Next]_vars

\* Documents of header lines and near misses.
HeaderLines ==
    {"# Title", "## T", "### T", "##text", "#### T", "# ", "## # T", "- a", "1. b"}

InitHeaders == InitWith(Docs(HeaderLines, MaxLines))

SpecHeaders == InitHeaders /\ [][Next]_vars

MaxLen == 4

\* Every string of at most MaxLen characters over a small alphabet.
Chars == {"a", " ", "\t", "1", ".", "-", NL}

InitChars == InitWith(Strings(Chars, MaxLen))

SpecChars == InitChars /\ [][Next]_vars

MaxRun == 11

\* The k-th line of a run of ordered items.
RunLine(k) == ToString(k) \o ". a"

\* Documents holding one run of up to MaxRun ordered items, after an
\* unordered list or at the start, and before plain lines or the end.
LongDocs ==
    {Join(pre \o [k \in 1..n |-> RunLine(k)] \o post) :
        pre \in {<<>>, <<"- b", "x">>}, n \in 0..MaxRun, post \in {<<>>, <<"x">>, <<"x", "y">>}}

InitLongRun == InitWith(LongDocs)

SpecLongRun == InitLongRun /\ [][Next]_vars

-----------------------------------------------------------------------------
(* Vocabulary of the properties                                             *)

\* A list-item line: it starts with "- ", "* " or digits and ". ".
IsItem(line) == IsUnordered(line) \/ IsOrdered(line)

\* The text of an item line after its marker.
ItemText(line) == IF IsUnordered(line) THEN UnorderedItem(line) ELSE OrderedItem(line)

\* The open and close markers of the kind of an item line.
OpenOf(line) == IF IsUnordered(line) THEN "<ul>" ELSE "<ol>"

CloseOf(line) == IF IsUnordered(line) THEN "</ul>" ELSE "</ol>"

OpenTags == {"<ul>", "<ol>"}

CloseTags == {"</ul>", "</ol>"}

\* The first line of the run of item lines that line k of ls belongs to.
RECURSIVE RunStart(_, _)
RunStart(ls, k) == IF k > 1 /\ IsItem(ls[k - 1]) THEN RunStart(ls, k - 1) ELSE k

\* The runs that start in the first k lines of ls.
Opens(ls, k) == Cardinality({j \in 1..k : IsItem(ls[j]) /\ (j = 1 \/ ~IsItem(ls[j - 1]))})

\* The runs that a non-item line among the first k lines of ls ends.
Closes(ls, k) == Cardinality({j \in 2..k : ~IsItem(ls[j]) /\ IsItem(ls[j - 1])})

\* Where the output of line k of ls stands among the emitted lines.
Pos(ls, k) == k + Opens(ls, k) + Closes(ls, k)

\* The number of emitted lines once every line of ls is processed and a
\* list left open is closed.
FinalLen(ls) ==
    Len(ls) + Opens(ls, Len(ls)) + Closes(ls, Len(ls))
        + (IF IsItem(ls[Len(ls)]) THEN 1 ELSE 0)

\* The document after the six substitutions.
Substituted(s) == Blockquote(InlineCode(Bold(Header1(Header2(Header3(s))))))

\* The input lines.
Source == Split(md)

-----------------------------------------------------------------------------
(* The properties                                                           *)

\* C1: a list still open at the end of the document is closed with the close
\* marker of the kind of the marker that opened it: </ol> for a run that
\* <ol> opened, </ul> for a run that <ul> opened.
C1_EndClosesOpenedKind ==
    (pc = "join" /\ IsItem(Source[Len(Source)]))
        => result[Len(result)] = CloseOf(Source[RunStart(Source, Len(Source))])

\* C2: when a non-item line follows a run, the close marker emitted just
\* before that line is of the kind of the marker that opened the run,
\* whatever the length of the run and whatever the earlier output holds.
C2_CloseMatchesOpenedKind ==
    (pc = "list" /\ i > 2 /\ ~IsItem(Source[i - 1]) /\ IsItem(Source[i - 2]))
        => result[Len(result) - 1] = CloseOf(Source[RunStart(Source, i - 2)])

\* C3: a document of one plain line that holds inline markers is returned as
\* one paragraph element around the line with its inline elements
\* substituted, also when the line begins with a bold marker or ends with a
\* code marker.
C3_InlineLineIsParagraph ==
    (pc = "done" /\ Len(Source) = 1 /\ ~IsItem(md) /\ InlineCode(Bold(md)) # md)
        => ret = "<p>" \o InlineCode(Bold(md)) \o "</p>"

\* The characters C4 calls Markdown special.
SpecialChars == {"#", "*", BT, ">", "-", "<"}

\* A single-line string free of special characters and of a list marker.
IsPlain(s) ==
    /\ \A k \in 1..Len(s) : At(s, k) \notin SpecialChars \cup {NL}
    /\ ~IsOrdered(s)

\* The positions of s that hold no blank.
Inked(s) == {k \in 1..Len(s) : At(s, k) \notin {" ", "\t", "\r", "\f"}}

\* s from its first to its last non-blank character.
Trimmed(s) ==
    IF Inked(s) = {} THEN ""
    ELSE SubSeq(s, Min(Inked(s)), CHOOSE k \in Inked(s) : \A j \in Inked(s) : j <= k)

\* C4 as stated: a plain single-line string s is returned as a paragraph
\* element whose content is s character for character, leading and trailing
\* whitespace included.
C4_ParagraphHoldsExactly ==
    (pc = "done" /\ IsPlain(md)) => ret = "<p>" \o md \o "</p>"

\* C4, amended: a plain single-line string s with a non-blank character is
\* returned as a paragraph element whose content is s without its leading
\* and trailing whitespace; an empty or all-blank s is returned unchanged.
C4_ParagraphHoldsTrimmed ==
    (pc = "done" /\ IsPlain(md))
        => ret = (IF Trimmed(md) = "" THEN md ELSE "<p>" \o Trimmed(md) \o "</p>")

\* A plain string with blanks around its text has been rendered.
C4_Witness ==
    /\ pc = "done"
    /\ IsPlain(md)
    /\ Trimmed(md) # ""
    /\ StartsWith(md, " ")
    /\ EndsWith(md, "\t")

\* C5: while the lines are scanned, the output ends, after each item line,
\* with exactly the open marker of the kind of the first item of its run
\* followed by one <li> element per item of the run so far, in input order;
\* the item lines of the input are the item lines the loop sees.
C5_OneContainerPerRun ==
    pc = "list" =>
        LET src == Source
        IN  /\ Len(lines) = Len(src)
            /\ \A k \in 1..Len(lines) : IsItem(lines[k]) = IsItem(src[k])
            /\ (i > 1 /\ IsItem(src[i - 1])) =>
                  LET first == RunStart(src, i - 1)
                      n == i - first
                  IN  /\ Len(result) > n
                      /\ SubSeq(result, Len(result) - n, Len(result))
                            = <<OpenOf(src[first])>>
                                \o [j \in 1..n |-> ListItem(ItemText(lines[first + j - 1]))]

\* An ordered item has been appended to a run that an unordered item opened.
C5_Witness ==
    /\ pc = "list"
    /\ i > 2
    /\ IsUnordered(Source[i - 2])
    /\ IsOrdered(Source[i - 1])
    /\ ~IsUnordered(Source[i - 1])

\* C6: the returned fragment holds, for every input line and in input order,
\* exactly one line, the rendering of that input line; every other line of
\* the fragment is an inserted list marker, an open marker before each run
\* and a close marker after it.
C6_LinesInInputOrder ==
    pc = "done" =>
        LET out == Split(ret)
            src == Source
            sub == Split(Substituted(md))
            produced == {Pos(src, k) : k \in 1..Len(src)}
        IN  /\ Len(sub) = Len(src)
            /\ Len(out) = FinalLen(src)
            /\ \A k \in 1..Len(src) :
                  out[Pos(src, k)] =
                      (IF IsItem(src[k]) THEN ListItem(ItemText(sub[k]))
                       ELSE Paragraph(sub[k]))
            /\ \A p \in (1..Len(out)) \ produced : out[p] \in OpenTags \cup CloseTags
            /\ Cardinality(produced) = Len(src)

\* A document of a plain line, a list and a plain line has been rendered.
C6_Witness ==
    /\ pc = "done"
    /\ Len(Source) >= 3
    /\ ~IsItem(Source[1])
    /\ Source[1] # ""
    /\ IsItem(Source[2])
    /\ ~IsItem(Source[3])

\* How far the function is from returning: the statements left, and the
\* lines left in the running loop.
Rank ==
    CASE pc = "h3" -> 10
      [] pc = "h2" -> 9
      [] pc = "h1" -> 8
      [] pc = "bold" -> 7
      [] pc = "code" -> 6
      [] pc = "quote" -> 5
      [] pc = "split" -> 4
      [] pc = "list" -> 3
      [] pc = "join" -> 2
      [] pc = "para" -> 1
      [] OTHER -> 0

LinesLeft == IF pc \in {"list", "para"} THEN Len(lines) + 1 - i ELSE 0

\* Some action can be taken: the disjunction of the guards of the actions,
\* whose assignments can always be carried out.
CanStep ==
    \/ pc \in {"h3", "h2", "h1", "bold", "code", "quote", "split", "join"}
    \/ /\ pc = "list"
       /\ i <= Len(lines)
       /\ \/ IsUnordered(lines[i])
          \/ ~IsUnordered(lines[i]) /\ IsOrdered(lines[i])
          \/ ~IsUnordered(lines[i]) /\ ~IsOrdered(lines[i])
    \/ pc = "list" /\ i > Len(lines)
    \/ pc = "para" /\ i <= Len(lines)
    \/ pc = "para" /\ i > Len(lines)

\* C7: the function raises no error, every step brings it closer to its
\* return and it can always take a step until it has returned; the fragment
\* of the empty document is the empty string.
C7_NeverFails ==
    /\ [](/\ pc # "error"
          /\ LinesLeft >= 0
          /\ (pc = "done" \/ CanStep)
          /\ (pc = "done" /\ md = "" => ret = ""))
    /\ [][Rank' < Rank \/ (Rank' = Rank /\ LinesLeft' < LinesLeft)]_vars

\* A document that starts with a plain line, holds an unmatched bold marker
\* and ends inside a list has been rendered.
C7_Witness ==
    /\ pc = "done"
    /\ ~IsItem(Source[1])
    /\ Contains(ret, "**")
    /\ in_list

\* The number of # characters a line starts with.
RECURSIVE Hashes(_)
Hashes(line) == IF Len(line) > 0 /\ At(line, 1) = "#" THEN 1 + Hashes(Drop(line, 1)) ELSE 0

\* A header line: one to three #, a space, and text.
IsHeader(line) ==
    /\ Hashes(line) \in 1..3
    /\ Len(line) > Hashes(line) + 1
    /\ At(line, Hashes(line) + 1) = " "

\* The header element of a header line.
HeaderOf(line) ==
    LET k == Hashes(line)
    IN  "<h" \o ToString(k) \o ">" \o Drop(line, k + 1) \o "</h" \o ToString(k) \o ">"

\* The header rules applied so far: the rule of level 3 first.
RulesDone == CASE pc = "h3" -> {} [] pc = "h2" -> {3} [] pc = "h1" -> {2, 3} [] OTHER -> {1, 2, 3}

\* C8: each header rule converts exactly the lines of its level, a line of k
\* # (k in 1..3), a space and text, into the header element of level k
\* around that text, and leaves every other line as it is; "# Title" is
\* returned as <h1>Title</h1>, and a line that starts with # and is no
\* header line, such as "##text", is returned as a paragraph of plain text.
C8_HeadersExclusiveAndExact ==
    /\ pc \in {"h3", "h2", "h1", "bold"} =>
          LET now == Split(html)
              src == Source
          IN  /\ Len(now) = Len(src)
              /\ \A k \in 1..Len(src) :
                    now[k] = (IF IsHeader(src[k]) /\ Hashes(src[k]) \in RulesDone
                              THEN HeaderOf(src[k])
                              ELSE src[k])
    /\ pc = "done" =>
          LET out == Split(ret)
              src == Source
          IN  /\ \A k \in 1..Len(src) :
                    StartsWith(src[k], "#") =>
                        out[Pos(src, k)] =
                            (IF IsHeader(src[k]) THEN HeaderOf(src[k])
                             ELSE "<p>" \o Trimmed(src[k]) \o "</p>")
              /\ md = "# Title" => ret = "<h1>Title</h1>"
              /\ md = "##text" => ret = "<p>##text</p>"

\* A document with a header of each level and a marker without its space
\* has been rendered.
C8_Witness ==
    /\ pc = "done"
    /\ \E k \in 1..Len(Source) : ~IsHeader(Source[k]) /\ StartsWith(Source[k], "##")
    /\ {Hashes(Source[k]) : k \in {j \in 1..Len(Source) : IsHeader(Source[j])}} = {1, 2}

\* Bold pairing that does not stop at the end of a line.
BoldClosesAcross(s, p) == {q \in (p + 3)..(Len(s) - 1) : SubSeq(s, q, q + 1) = "**"}

BoldOpensAcross(s) ==
    {p \in 1..(Len(s) - 4) : SubSeq(s, p, p + 1) = "**" /\ BoldClosesAcross(s, p) # {}}

RECURSIVE BoldAcross(_)
BoldAcross(s) ==
    IF BoldOpensAcross(s) = {} THEN s
    ELSE LET p == Min(BoldOpensAcross(s))
             q == Min(BoldClosesAcross(s, p))
         IN  Take(s, p - 1) \o "<strong>" \o SubSeq(s, p + 2, q - 1) \o "</strong>"
                \o BoldAcross(Drop(s, q + 1))

\* C9: both inline substitutions pair a marker with the next one whether or
\* not a line ends between them, bold first and inline code second: after
\* the bold step every ** is paired with the next ** of the document, and
\* after the code step every backtick with the next backtick.
C9_InlinePairsAcrossLines ==
    /\ pc = "code" => html = BoldAcross(Header1(Header2(Header3(md))))
    /\ pc = "quote" => html = InlineCode(BoldAcross(Header1(Header2(Header3(md)))))

\* C10: while the lines are scanned and after the last line, in_list holds
\* exactly when the last emitted line is the <li> element of the last line
\* read; the emitted lines are one per line read, one open marker before the
\* first item of every run and one close marker after the last item of every
\* run that has ended, and nothing else; the guard on the last emitted line
\* holds whenever a list is open; and once the list left open is closed the
\* close markers are as many as the open markers.
C10_ContainersFlatAndBalanced ==
    pc \in {"list", "join"} =>
        LET k == i - 1
        IN  /\ in_list = (k >= 1 /\ IsItem(lines[k]))
            /\ in_list /\ pc = "list" =>
                  /\ Len(result) > 0
                  /\ CloseGuard(result)
                  /\ result[Len(result)] = ListItem(ItemText(lines[k]))
            /\ Len(result) = k + Opens(lines, k) + Closes(lines, k)
                                + (IF pc = "join" /\ in_list THEN 1 ELSE 0)
            /\ pc = "join" => Len(result) = Len(lines) + 2 * Opens(lines, Len(lines))
            /\ \A j \in 1..k :
                  IF IsItem(lines[j])
                  THEN /\ result[Pos(lines, j)] = ListItem(ItemText(lines[j]))
                       /\ (j = 1 \/ ~IsItem(lines[j - 1]))
                              => result[Pos(lines, j) - 1] \in OpenTags
                  ELSE /\ result[Pos(lines, j)] = lines[j]
                       /\ (j > 1 /\ IsItem(lines[j - 1]))
                              => result[Pos(lines, j) - 1] \in CloseTags
            /\ (pc = "join" /\ in_list) => result[Len(result)] \in CloseTags

\* Two lists have been assembled, the second one closed after the last line.
C10_Witness ==
    /\ pc = "join"
    /\ in_list
    /\ Opens(lines, Len(lines)) = 2

====
